---- MODULE Spec2Model ----
(***************************************************************************)
(* SM3 hash engine (basic and optimized), the RFC6962-style Merkle tree    *)
(* built on it and the length-extension routine, modelled from             *)
(* src/src/sm3_basic.py, src/src/sm3_optimized.py, src/src/merkle_tree.py  *)
(* and src/src/length_extension.py.                                        *)
(*                                                                         *)
(* Representation.  A byte is an integer 0..255 and a message a sequence   *)
(* of bytes.  A 32-bit word is a sequence of 32 bits, most significant     *)
(* first (TLC integers are 32-bit signed, so a word cannot be one TLC      *)
(* integer).  A digest is a sequence of one-character strings.  A Python   *)
(* exception is a value: the outcome of a call is a record whose field     *)
(* err names the exception ("none" when the call returns).                 *)
(***************************************************************************)
EXTENDS Integers, Sequences, FiniteSets, TLC

(***************************************************************************)
(* Words                                                                   *)
(***************************************************************************)
Half == 65536

\* the 16-bit integer held by bits k+1 .. k+16 of a bit sequence
Int16(x, k) ==
    x[k+1]*32768 + x[k+2]*16384 + x[k+3]*8192 + x[k+4]*4096
  + x[k+5]*2048 + x[k+6]*1024 + x[k+7]*512 + x[k+8]*256
  + x[k+9]*128 + x[k+10]*64 + x[k+11]*32 + x[k+12]*16
  + x[k+13]*8 + x[k+14]*4 + x[k+15]*2 + x[k+16]

\* a bit-indexed function as a tuple of 32 bits
Bits(f) == SubSeq(f, 1, 32)

\* the word whose high and low halves are hi % 2^16 and lo % 2^16
WordOf(hi, lo) ==
    Bits([i \in 1..32 |-> IF i <= 16 THEN (hi \div (2^(16-i))) % 2
                                    ELSE (lo \div (2^(32-i))) % 2])

\* a Python integer literal 0xHHHHLLLL
Hex32(hi, lo) == WordOf(hi, lo)

Zero32 == Bits([i \in 1..32 |-> 0])

\* x ^ y
Xor(x, y) == Bits([i \in 1..32 |-> (x[i] + y[i]) % 2])

\* x & y
And(x, y) == Bits([i \in 1..32 |-> x[i] * y[i]])

\* x | y
Or(x, y) == Bits([i \in 1..32 |-> IF x[i] + y[i] > 0 THEN 1 ELSE 0])

\* (~x) & z : ~x is -x-1, all of whose bits above bit 31 are 1; z has none
AndNot(x, z) == Bits([i \in 1..32 |-> (1 - x[i]) * z[i]])

\* (x << n) & 0xFFFFFFFF, n >= 0
ShlMask(x, n) == Bits([i \in 1..32 |-> IF i + n <= 32 THEN x[i+n] ELSE 0])

\* x >> k, k >= 0
Shr(x, k) == Bits([i \in 1..32 |-> IF i - k >= 1 THEN x[i-k] ELSE 0])

\* (a + b + c + d) & 0xFFFFFFFF
Add4(a, b, c, d) ==
    LET lo == Int16(a, 16) + Int16(b, 16) + Int16(c, 16) + Int16(d, 16)
        hi == Int16(a, 0) + Int16(b, 0) + Int16(c, 0) + Int16(d, 0) + (lo \div Half)
    IN  WordOf(hi % Half, lo % Half)

\* (a + b + c) & 0xFFFFFFFF
Add3(a, b, c) == Add4(a, b, c, Zero32)

\* what an expression denotes when its evaluation raised: Python's
\* "ValueError: negative shift count" of x >> k with k < 0
Raised == <<>>

\* body(v) for the value v of e: an assignment "v = e" whose right-hand side is
\* evaluated once, however often the code that follows reads v
With(e, body(_)) == CHOOSE out \in { body(v) : v \in { e } } : TRUE

(***************************************************************************)
(* The inputs the callers draw, and their bounds                           *)
(***************************************************************************)
MaxPadLen == 130

MaxHashLen == 2

MaxLeaves == 3

MaxLeafLen == 1

MaxIndex == 2

MaxProofLen == 1

MaxOrigLen == 1

\* the message "abcdabcd..." of n bytes
Msg(n) == SubSeq([i \in 1..n |-> 97 + ((i - 1) % 4)], 1, n)

PadMsgs == { Msg(n) : n \in 0..MaxPadLen }

\* short messages, and messages whose padding fills one block exactly and two blocks
HashMsgs == { Msg(n) : n \in (0..MaxHashLen) \cup {55, 56, 64} }

LeafData == { Msg(n) : n \in 0..MaxLeafLen }

\* all sequences over S of length at most n
RECURSIVE SeqsUpTo(_, _)
SeqsUpTo(S, n) ==
    IF n = 0 THEN { <<>> }
    ELSE { <<>> } \cup { <<e>> \o q : e \in S, q \in SeqsUpTo(S, n - 1) }

\* the four leaves [b"a", b"b", b"d", b"e"] of test_non_existence_proof
TestLeaves == << <<97>>, <<98>>, <<100>>, <<101>> >>

LeafLists == SeqsUpTo(LeafData, MaxLeaves) \cup { TestLeaves }

(***************************************************************************)
(* sm3_basic.py                                                            *)
(***************************************************************************)
\* 0x7380166F, 0x4914B2B9, 0x172442D7, 0xDA8A0600,
\* 0xA96F30BC, 0x163138AA, 0xE38DEE4D, 0xB0FB0E4E  (Hex32(hi, lo): the two halves in decimal)
IV ==
    << Hex32(29568, 5743), Hex32(18708, 45753), Hex32(5924, 17111), Hex32(55946, 1536),
       Hex32(43375, 12476), Hex32(5681, 14506), Hex32(58253, 61005), Hex32(45307, 3662) >>

\* T[j], j = 0..63 : 0x79CC4519 sixteen times, then 0x7A879D8A
T(j) == IF j < 16 THEN Hex32(31180, 17689) ELSE Hex32(31367, 40330)

rotate_left(x, n) ==
    IF 32 - n < 0 THEN Raised
    ELSE Or(ShlMask(x, n), Shr(x, 32 - n))

P0(x) == Xor(Xor(x, rotate_left(x, 9)), rotate_left(x, 17))

P1(x) == Xor(Xor(x, rotate_left(x, 15)), rotate_left(x, 23))

FF(x, y, z, j) ==
    IF 0 <= j /\ j <= 15 THEN Xor(Xor(x, y), z)
    ELSE Or(Or(And(x, y), And(x, z)), And(y, z))

GG(x, y, z, j) ==
    IF 0 <= j /\ j <= 15 THEN Xor(Xor(x, y), z)
    ELSE Or(And(x, y), AndNot(x, z))

\* b'\x00' * k
Zeros(k) == SubSeq([i \in 1..k |-> 0], 1, k)

\* the k low bytes of n, least significant first: struct.pack('<Q', n) is PackLE(n, 8)
RECURSIVE PackLE(_, _)
PackLE(n, k) == IF k = 0 THEN <<>> ELSE <<n % 256>> \o PackLE(n \div 256, k - 1)

padding(message) ==
    LET message_bit_length == Len(message) * 8
        m1 == message \o <<128>>
        p0 == (448 - ((Len(m1) * 8) % 512)) \div 8
        padding_length == IF p0 < 0 THEN p0 + 64 ELSE p0
    IN  m1 \o Zeros(padding_length) \o PackLE(message_bit_length, 8)

\* the bits of one byte, most significant first
ByteBits(b) == SubSeq([i \in 1..8 |-> (b \div (2^(8-i))) % 2], 1, 8)

\* struct.unpack('<16I', B)[k], k = 0..15 : bytes 4k..4k+3 of B, little-endian
UnpackLE(B, k) ==
    ByteBits(B[4*k + 4]) \o ByteBits(B[4*k + 3]) \o ByteBits(B[4*k + 2]) \o ByteBits(B[4*k + 1])

\* W[j] of the code is W[j+1] here.  The passes lo .. hi-1 of the loop
\* "for j in range(16, 68)", run as the passes lo .. mid-1 followed by mid .. hi-1;
\* pass j appends one word to W
RECURSIVE ExtendW(_, _, _)
ExtendW(W, lo, hi) ==
    IF hi - lo = 1
    THEN LET j == lo
         IN  Append(W, Xor(Xor(P1(Xor(Xor(W[j-16+1], W[j-9+1]), rotate_left(W[j-3+1], 15))),
                               rotate_left(W[j-13+1], 7)),
                           W[j-6+1]))
    ELSE With(ExtendW(W, lo, (lo + hi) \div 2), LAMBDA first :
             ExtendW(first, (lo + hi) \div 2, hi))

message_extension(B) ==
    With(ExtendW(SubSeq([k \in 1..16 |-> UnpackLE(B, k - 1)], 1, 16), 16, 68), LAMBDA W :
        [W |-> W, W_prime |-> SubSeq([j \in 1..64 |-> Xor(W[j], W[j + 4])], 1, 64)])

\* the loop body of compression for round j on the registers r = <<A,...,H>>;
\* Raised when rotate_left(Tj, j) raises
Round(r, j, ext) ==
    LET A == r[1]  B == r[2]  C == r[3]  D == r[4]
        E == r[5]  F == r[6]  G == r[7]  H == r[8]
    IN  With(rotate_left(T(j), j), LAMBDA rT :
        IF rT = Raised THEN Raised
        ELSE With(rotate_left(Add3(rotate_left(A, 12), E, rT), 7), LAMBDA SS1 :
             LET SS2 == Xor(SS1, rotate_left(A, 12))
                 TT1 == Add4(FF(A, B, C, j), D, SS2, ext.W_prime[j + 1])
                 TT2 == Add4(GG(E, F, G, j), H, SS1, ext.W[j + 1])
             IN  << TT1, A, rotate_left(B, 9), C, P0(TT2), E, rotate_left(F, 19), G >>))

\* the rounds lo .. hi-1 of the loop "for j in range(64)" on the registers r, run as
\* the rounds lo .. mid-1 followed, unless one of them raised, by mid .. hi-1.
\* regs are the registers and rounds the number of rounds of the block completed
\* when the loop ended
RECURSIVE Rounds(_, _, _, _)
Rounds(r, lo, hi, ext) ==
    IF hi - lo = 1
    THEN With(Round(r, lo, ext), LAMBDA n :
             IF n = Raised THEN [err |-> "ValueError", regs |-> r, rounds |-> lo]
             ELSE [err |-> "none", regs |-> n, rounds |-> hi])
    ELSE With(Rounds(r, lo, (lo + hi) \div 2, ext), LAMBDA first :
             IF first.err # "none" THEN first
             ELSE Rounds(first.regs, (lo + hi) \div 2, hi, ext))

\* new_V, or the exception; regs and rounds record the registers and the number of
\* rounds completed when the call ended (they are not values the code returns)
compression(V, B) ==
    With(message_extension(B), LAMBDA ext :
    With(Rounds(V, 0, 64, ext), LAMBDA c :
        IF c.err # "none" THEN [err |-> c.err, V |-> <<>>, regs |-> c.regs, rounds |-> c.rounds]
        ELSE [err |-> "none", V |-> SubSeq([i \in 1..8 |-> Xor(c.regs[i], V[i])], 1, 8),
              regs |-> c.regs, rounds |-> c.rounds]))

\* f'{x:08x}' : the 8 lowercase hexadecimal digits of a word
HexDigits == <<"0","1","2","3","4","5","6","7","8","9","a","b","c","d","e","f">>

Hex08(x) ==
    SubSeq([d \in 1..8 |->
              HexDigits[x[4*d-3]*8 + x[4*d-2]*4 + x[4*d-1]*2 + x[4*d] + 1]], 1, 8)

\* ''.join(f'{x:08x}' for x in V)
RECURSIVE JoinHex(_)
JoinHex(V) == IF V = <<>> THEN <<>> ELSE Hex08(Head(V)) \o JoinHex(Tail(V))

\* the loop "for i in range(0, len(padded_message), 64)" of sm3_hash from offset i
\* (0-based) with chaining value V; blocks counts the blocks compressed so far
RECURSIVE HashBlocks(_, _, _, _)
HashBlocks(V, padded_message, i, blocks) ==
    IF i >= Len(padded_message)
    THEN [err |-> "none", val |-> JoinHex(V), V |-> V, regs |-> <<>>, rounds |-> 64, blocks |-> blocks]
    ELSE With(compression(V, SubSeq(padded_message, i + 1, i + 64)), LAMBDA c :
             IF c.err # "none"
             THEN [err |-> c.err, val |-> <<>>, V |-> <<>>, regs |-> c.regs,
                   rounds |-> c.rounds, blocks |-> blocks]
             ELSE HashBlocks(c.V, padded_message, i + 64, blocks + 1))

\* the body of sm3_hash
sm3_hash_run(message) ==
    With(padding(message), LAMBDA padded_message : HashBlocks(IV, padded_message, 0, 0))

\* the outcomes of sm3_hash on the messages the callers hash, evaluated once
sm3_hash_outcomes == [m \in HashMsgs |-> sm3_hash_run(m)]

sm3_hash(message) ==
    With(sm3_hash_outcomes, LAMBDA known :
        IF message \in DOMAIN known THEN known[message] ELSE sm3_hash_run(message))

(***************************************************************************)
(* sm3_optimized.py                                                        *)
(***************************************************************************)
_IV == IV

_T(j) == T(j)

\* x << n as a 64-bit value (0 <= n <= 32), most significant bit first
ShlWide(x, n) ==
    SubSeq([i \in 1..64 |-> IF 1 <= i + n - 32 /\ i + n - 32 <= 32 THEN x[i + n - 32] ELSE 0], 1, 64)

\* (w | y) & 0xFFFFFFFF for a 64-bit w and a 32-bit y
OrWideMask(w, y) == Bits([i \in 1..32 |-> IF w[32 + i] + y[i] > 0 THEN 1 ELSE 0])

_rotate_left(x, n) ==
    IF 32 - n < 0 THEN Raised
    ELSE OrWideMask(ShlWide(x, n), Shr(x, 32 - n))

_P0(x) == Xor(Xor(x, _rotate_left(x, 9)), _rotate_left(x, 17))

_P1(x) == Xor(Xor(x, _rotate_left(x, 15)), _rotate_left(x, 23))

_FF1(x, y, z) == Xor(Xor(x, y), z)

_FF2(x, y, z) == Or(Or(And(x, y), And(x, z)), And(y, z))

_GG1(x, y, z) == Xor(Xor(x, y), z)

_GG2(x, y, z) == Or(And(x, y), AndNot(x, z))

\* _padding with the zero count taken from 56 - msg_len: one zero byte more than
\* the rule allows (64 rather than 0 when msg_len % 64 = 55, and a length off 0 mod 64)
_padding_long(message) ==
    LET msg_len == Len(message)
        pad_len == (56 - msg_len) % 64
    IN  message \o <<128>> \o Zeros(pad_len) \o PackLE(msg_len * 8, 8)

_padding(message) ==
    LET msg_len == Len(message)
        pad_len == (55 - msg_len) % 64
    IN  message \o <<128>> \o Zeros(pad_len) \o PackLE(msg_len * 8, 8)

\* the passes lo .. hi-1 of the loop "for j in range(16, 68)" on the preallocated
\* list W (len(W) = 68), run as the passes lo .. mid-1 followed by mid .. hi-1
RECURSIVE _ExtendW(_, _, _)
_ExtendW(W, lo, hi) ==
    IF hi - lo = 1
    THEN LET j == lo
             v1 == Xor(W[j-16+1], W[j-9+1])
             v2 == Xor(v1, _rotate_left(W[j-3+1], 15))
             v3 == _P1(v2)
             v4 == Xor(v3, _rotate_left(W[j-13+1], 7))
             v5 == Xor(v4, W[j-6+1])
         IN  [W EXCEPT ![j+1] = v5]
    ELSE With(_ExtendW(W, lo, (lo + hi) \div 2), LAMBDA first :
             _ExtendW(first, (lo + hi) \div 2, hi))

_message_extension(B) ==
    With(_ExtendW(SubSeq([k \in 1..68 |-> IF k <= 16 THEN UnpackLE(B, k - 1) ELSE Zero32], 1, 68),
                  16, 68), LAMBDA W :
        [W |-> W, W_prime |-> SubSeq([j \in 1..64 |-> Xor(W[j], W[j + 4])], 1, 64)])

\* the loop body of _compression for round j; r = <<A, B_val, C, D, E, F, G, H>>,
\* rot = <<rotate_B, rotate_F>>; Raised when _rotate_left(Tj, j) raises
_Round(r, rot, j, ext) ==
    LET A == r[1]  B_val == r[2]  C == r[3]  D == r[4]
        E == r[5]  F == r[6]  G == r[7]  H == r[8]
    IN  With(_rotate_left(_T(j), j), LAMBDA rT :
        IF rT = Raised THEN Raised
        ELSE With(_rotate_left(Add3(_rotate_left(A, 12), E, rT), 7), LAMBDA SS1 :
             LET SS2 == Xor(SS1, _rotate_left(A, 12))
                 TT1 == Add4(IF j <= 15 THEN _FF1(A, B_val, C) ELSE _FF2(A, B_val, C),
                             D, SS2, ext.W_prime[j + 1])
                 TT2 == Add4(IF j <= 15 THEN _GG1(E, F, G) ELSE _GG2(E, F, G),
                             H, SS1, ext.W[j + 1])
             IN  With(<< TT1, A, rot[1], C, _P0(TT2), E, rot[2], G >>, LAMBDA n :
                     [r |-> n, rot |-> << _rotate_left(n[2], 9), _rotate_left(n[6], 19) >>])))

\* the rounds lo .. hi-1 of the loop "for j in range(64)", run as the rounds
\* lo .. mid-1 followed, unless one of them raised, by mid .. hi-1
RECURSIVE _Rounds(_, _, _, _, _)
_Rounds(r, rot, lo, hi, ext) ==
    IF hi - lo = 1
    THEN With(_Round(r, rot, lo, ext), LAMBDA n :
             IF n = Raised THEN [err |-> "ValueError", regs |-> r, rot |-> rot, rounds |-> lo]
             ELSE [err |-> "none", regs |-> n.r, rot |-> n.rot, rounds |-> hi])
    ELSE With(_Rounds(r, rot, lo, (lo + hi) \div 2, ext), LAMBDA first :
             IF first.err # "none" THEN first
             ELSE _Rounds(first.regs, first.rot, (lo + hi) \div 2, hi, ext))

_compression(V, B) ==
    With(_message_extension(B), LAMBDA ext :
    With(_Rounds(V, << _rotate_left(V[2], 9), _rotate_left(V[6], 19) >>, 0, 64, ext), LAMBDA c :
        IF c.err # "none" THEN [err |-> c.err, V |-> <<>>, regs |-> c.regs, rounds |-> c.rounds]
        ELSE [err |-> "none", V |-> SubSeq([i \in 1..8 |-> Xor(c.regs[i], V[i])], 1, 8),
              regs |-> c.regs, rounds |-> c.rounds]))

\* the block loop of sm3_hash_optimized, and of sm3_length_extension_attack
RECURSIVE _HashBlocks(_, _, _, _)
_HashBlocks(V, padded_message, i, blocks) ==
    IF i >= Len(padded_message)
    THEN [err |-> "none", val |-> JoinHex(V), V |-> V, regs |-> <<>>, rounds |-> 64, blocks |-> blocks]
    ELSE With(_compression(V, SubSeq(padded_message, i + 1, i + 64)), LAMBDA c :
             IF c.err # "none"
             THEN [err |-> c.err, val |-> <<>>, V |-> <<>>, regs |-> c.regs,
                   rounds |-> c.rounds, blocks |-> blocks]
             ELSE _HashBlocks(c.V, padded_message, i + 64, blocks + 1))

\* the body of sm3_hash_optimized
sm3_hash_optimized_run(message) ==
    With(_padding(message), LAMBDA padded_message : _HashBlocks(_IV, padded_message, 0, 0))

\* its outcomes on the messages the callers hash (directly, and as prefixed leaves),
\* evaluated once
sm3_hash_optimized_outcomes ==
    [m \in HashMsgs \cup { <<0>> \o d : d \in LeafData }
                \cup { <<0>> \o TestLeaves[i] : i \in 1..Len(TestLeaves) } |->
        sm3_hash_optimized_run(m)]

sm3_hash_optimized(message) ==
    With(sm3_hash_optimized_outcomes, LAMBDA known :
        IF message \in DOMAIN known THEN known[message] ELSE sm3_hash_optimized_run(message))


(***************************************************************************)
(* Outcomes of calls                                                       *)
(***************************************************************************)
\* the call returned v
Ok(v) == [err |-> "none", val |-> v]

\* the call raised exception e
Raise(e) == [err |-> e, val |-> <<>>]

\* Python's None (no byte sequence contains -1)
None == << -1 >>

(***************************************************************************)
(* merkle_tree.py                                                          *)
(***************************************************************************)
\* "e3b0c44298fc1c149afbf4c8996fb92427ae41e4649b934ca495991b7852b855"
RFC6962_EMPTY_ROOT ==
    << "e","3","b","0","c","4","4","2","9","8","f","c","1","c","1","4" >> \o
    << "9","a","f","b","f","4","c","8","9","9","6","f","b","9","2","4" >> \o
    << "2","7","a","e","4","1","e","4","6","4","9","b","9","3","4","c" >> \o
    << "a","4","9","5","9","9","1","b","7","8","5","2","b","8","5","5" >>

RFC6962_LEAF_PREFIX == << 0 >>

RFC6962_NODE_PREFIX == << 1 >>

\* the value of a hexadecimal digit character, -1 for any other character
HexVal(c) ==
    CASE c = "0" -> 0 [] c = "1" -> 1 [] c = "2" -> 2 [] c = "3" -> 3
      [] c = "4" -> 4 [] c = "5" -> 5 [] c = "6" -> 6 [] c = "7" -> 7
      [] c = "8" -> 8 [] c = "9" -> 9
      [] c \in {"a", "A"} -> 10 [] c \in {"b", "B"} -> 11 [] c \in {"c", "C"} -> 12
      [] c \in {"d", "D"} -> 13 [] c \in {"e", "E"} -> 14 [] c \in {"f", "F"} -> 15
      [] OTHER -> -1

\* the characters str.isspace / bytes.fromhex treat as ASCII whitespace
IsSpace(c) == c \in {" ", "\t", "\n", "\r"}

\* bytes.fromhex(s): pairs of hexadecimal digits, ASCII whitespace skipped between
\* pairs; ValueError for anything else
RECURSIVE fromhex(_)
fromhex(s) ==
    IF s = <<>> THEN Ok(<<>>)
    ELSE IF IsSpace(s[1]) THEN fromhex(Tail(s))
    ELSE IF Len(s) < 2 \/ HexVal(s[1]) < 0 \/ HexVal(s[2]) < 0 THEN Raise("ValueError")
    ELSE With(fromhex(SubSeq(s, 3, Len(s))), LAMBDA rest :
             IF rest.err # "none" THEN rest
             ELSE Ok(<< HexVal(s[1]) * 16 + HexVal(s[2]) >> \o rest.val))

hash_leaf(data) ==
    With(sm3_hash_optimized(RFC6962_LEAF_PREFIX \o data), LAMBDA h :
        IF h.err # "none" THEN Raise(h.err) ELSE Ok(h.val))

hash_nodes(left, right) ==
    With(fromhex(left), LAMBDA left_bytes :
        IF left_bytes.err # "none" THEN left_bytes
        ELSE With(fromhex(right), LAMBDA right_bytes :
            IF right_bytes.err # "none" THEN right_bytes
            ELSE With(sm3_hash_optimized(RFC6962_NODE_PREFIX \o left_bytes.val \o right_bytes.val),
                      LAMBDA h : IF h.err # "none" THEN Raise(h.err) ELSE Ok(h.val))))

\* [hash_leaf(leaf) for leaf in leaves]: the first exception ends the comprehension
RECURSIVE HashLeaves(_)
HashLeaves(leaves) ==
    IF leaves = <<>> THEN Ok(<<>>)
    ELSE With(hash_leaf(Head(leaves)), LAMBDA h :
             IF h.err # "none" THEN h
             ELSE With(HashLeaves(Tail(leaves)), LAMBDA rest :
                      IF rest.err # "none" THEN rest ELSE Ok(<<h.val>> \o rest.val)))

\* math.ceil(math.log2(n)) for n >= 1 (exact while log2 is: n far below 2^48)
RECURSIVE CeilLog2From(_, _)
CeilLog2From(n, h) == IF 2^h >= n THEN h ELSE CeilLog2From(n, h + 1)

CeilLog2(n) == CeilLog2From(n, 0)

\* [v] * k
Repeat(v, k) == SubSeq([i \in 1..k |-> v], 1, k)

\* one pass of "for i in range(0, len(current_level), 2)" from position i (0-based)
RECURSIVE NextLevel(_, _)
NextLevel(current_level, i) ==
    IF i >= Len(current_level) THEN Ok(<<>>)
    ELSE LET left == current_level[i + 1]
             right == IF i + 1 < Len(current_level) THEN current_level[i + 2] ELSE left
         IN  With(hash_nodes(left, right), LAMBDA parent :
                 IF parent.err # "none" THEN parent
                 ELSE With(NextLevel(current_level, i + 2), LAMBDA rest :
                          IF rest.err # "none" THEN rest ELSE Ok(<<parent.val>> \o rest.val)))

\* "for _ in range(self.height)": k passes left, tree the levels built so far
RECURSIVE BuildLevels(_, _, _)
BuildLevels(tree, current_level, k) ==
    IF k <= 0 THEN Ok(tree)
    ELSE With(NextLevel(current_level, 0), LAMBDA next_level :
             IF next_level.err # "none" THEN next_level
             ELSE BuildLevels(Append(tree, next_level.val), next_level.val, k - 1))

\* a MerkleTree instance: attrs is the set of attributes __init__ has assigned
\* (height and size hold 0 while they are not attributes of the instance)
NoTree == [attrs |-> {}, leaf_hashes |-> <<>>, leaf_count |-> 0, root |-> <<>>,
           tree |-> <<>>, height |-> 0, size |-> 0]

\* MerkleTree(leaves): Ok(instance), or the exception __init__ raised
MerkleTree(leaves) ==
    With(HashLeaves(leaves), LAMBDA hashed :
    LET leaf_count == Len(leaves)
    IN  IF hashed.err # "none" THEN hashed
        ELSE IF leaf_count = 0
        THEN Ok([attrs |-> {"leaf_hashes", "leaf_count", "root", "tree"},
                 leaf_hashes |-> hashed.val, leaf_count |-> 0,
                 root |-> RFC6962_EMPTY_ROOT, tree |-> <<>>, height |-> 0, size |-> 0])
        ELSE LET height == CeilLog2(leaf_count)
                 size == 2^height
             IN  With(IF leaf_count < size THEN hash_leaf(<<>>) ELSE Ok(<<>>), LAMBDA empty_hash :
                 IF empty_hash.err # "none" THEN empty_hash
                 ELSE With(hashed.val \o Repeat(empty_hash.val, size - leaf_count),
                           LAMBDA leaf_hashes :
                      With(BuildLevels(<<leaf_hashes>>, leaf_hashes, height), LAMBDA tree :
                          IF tree.err # "none" THEN tree
                          ELSE Ok([attrs |-> {"leaf_hashes", "leaf_count", "height", "size",
                                              "tree", "root"},
                                   leaf_hashes |-> leaf_hashes, leaf_count |-> leaf_count,
                                   root |-> tree.val[Len(tree.val)][1], tree |-> tree.val,
                                   height |-> height, size |-> size])))))

\* reading self.<name>
GetAttr(self, name) ==
    IF name \notin self.attrs THEN Raise("AttributeError")
    ELSE Ok(CASE name = "root" -> self.root
              [] name = "height" -> self.height
              [] name = "size" -> self.size
              [] name = "leaf_count" -> self.leaf_count
              [] name = "leaf_hashes" -> self.leaf_hashes
              [] OTHER -> self.tree)

get_root(self) == GetAttr(self, "root")

\* the loop "for level in range(self.height)" of get_proof from level on (0-based)
RECURSIVE ProofLevels(_, _, _, _, _)
ProofLevels(self, level, adjusted_index, proof, is_right) ==
    IF level >= self.height THEN Ok([proof |-> proof, is_right |-> is_right])
    ELSE LET sibling_index == IF adjusted_index % 2 = 0 THEN adjusted_index + 1
                                                        ELSE adjusted_index - 1
             is_right_flag == (adjusted_index % 2 = 0)
         IN  ProofLevels(self, level + 1, adjusted_index \div 2,
                         Append(proof, self.tree[level + 1][sibling_index + 1]),
                         Append(is_right, is_right_flag))

get_proof(self, index) ==
    IF index < 0 \/ index >= self.leaf_count THEN Raise("IndexError")
    ELSE IF "height" \notin self.attrs THEN Raise("AttributeError")
    ELSE ProofLevels(self, 0, index, <<>>, <<>>)

\* the loop "for i in range(len(proof))" of verify_proof from i on (0-based)
RECURSIVE FoldProof(_, _, _, _)
FoldProof(current_hash, proof, is_right, i) ==
    IF i >= Len(proof) THEN Ok(current_hash)
    ELSE IF i >= Len(is_right) THEN Raise("IndexError")
    ELSE With(IF is_right[i + 1] THEN hash_nodes(current_hash, proof[i + 1])
                                 ELSE hash_nodes(proof[i + 1], current_hash), LAMBDA h :
             IF h.err # "none" THEN h ELSE FoldProof(h.val, proof, is_right, i + 1))

verify_proof(self, leaf_data, proof, is_right, root) ==
    With(hash_leaf(leaf_data), LAMBDA current_hash :
        IF current_hash.err # "none" THEN current_hash
        ELSE With(FoldProof(current_hash.val, proof, is_right, 0), LAMBDA top :
                 IF top.err # "none" THEN top ELSE Ok(top.val = root)))

\* self.leaf_data_to_index(leaf_data): the scan "for i, leaf_hash in enumerate(...)" from i
RECURSIVE ScanLeaves(_, _, _)
ScanLeaves(self, target_hash, i) ==
    IF i >= Len(self.leaf_hashes) THEN Raise("ValueError")
    ELSE IF self.leaf_hashes[i + 1] = target_hash /\ i < self.leaf_count THEN Ok(i)
    ELSE ScanLeaves(self, target_hash, i + 1)

leaf_data_to_index(self, leaf_data) ==
    With(hash_leaf(leaf_data), LAMBDA target_hash :
        IF target_hash.err # "none" THEN target_hash
        ELSE ScanLeaves(self, target_hash.val, 0))

\* "for i in range(index - 1, -1, -1): if i < self.leaf_count: ... break" from i down
RECURSIVE LeftScan(_, _)
LeftScan(self, i) ==
    IF i < 0 THEN None
    ELSE IF i < self.leaf_count THEN i
    ELSE LeftScan(self, i - 1)

\* "for i in range(index + 1, self.leaf_count): if i < self.leaf_count: ... break" from i up
RECURSIVE RightScan(_, _)
RightScan(self, i) ==
    IF i >= self.leaf_count THEN None
    ELSE IF i < self.leaf_count THEN i
    ELSE RightScan(self, i + 1)

\* the proof of a neighbour, or ([], []) when there is none
NeighbourProof(self, n) ==
    IF n = None THEN Ok([proof |-> <<>>, is_right |-> <<>>]) ELSE get_proof(self, n)

get_non_existence_proof(self, index) ==
    IF index < 0 THEN Raise("IndexError")
    ELSE IF "size" \notin self.attrs THEN Raise("AttributeError")
    ELSE IF index >= self.size THEN Raise("IndexError")
    ELSE IF index < self.leaf_count THEN Raise("ValueError")
    ELSE LET left_neighbor == LeftScan(self, index - 1)
             right_neighbor == RightScan(self, index + 1)
         IN  With(NeighbourProof(self, left_neighbor), LAMBDA left :
             With(NeighbourProof(self, right_neighbor), LAMBDA right :
             IF left.err # "none" THEN left
             ELSE IF right.err # "none" THEN right
             ELSE IF left_neighbor = None /\ right_neighbor = None THEN Raise("ValueError")
             ELSE Ok([left_neighbor |-> left_neighbor, left_proof |-> left.val.proof,
                      left_is_right |-> left.val.is_right,
                      right_neighbor |-> right_neighbor, right_proof |-> right.val.proof,
                      right_is_right |-> right.val.is_right])))

\* the last step with a neighbour demanded, as get_non_existence_proof demands one:
\* False when neither is given, and the ordering check as soon as one is
OrderCheck_needs_neighbour(self, index, left_data, right_data) ==
    IF left_data = None /\ right_data = None THEN Ok(FALSE)
    ELSE With(IF left_data # None THEN leaf_data_to_index(self, left_data) ELSE Ok(-1),
              LAMBDA left_index :
             IF left_index.err # "none" THEN left_index
             ELSE With(IF right_data # None THEN leaf_data_to_index(self, right_data)
                       ELSE Ok(self.leaf_count), LAMBDA right_index :
                      IF right_index.err # "none" THEN right_index
                      ELSE Ok(left_index.val < index /\ index < right_index.val)))

\* the last step of verify_non_existence: the ordering check when both neighbours are given
OrderCheck(self, index, left_data, right_data) ==
    IF left_data # None /\ right_data # None
    THEN With(leaf_data_to_index(self, left_data), LAMBDA left_index :
             IF left_index.err # "none" THEN left_index
             ELSE With(leaf_data_to_index(self, right_data), LAMBDA right_index :
                      IF right_index.err # "none" THEN right_index
                      ELSE Ok(left_index.val < index /\ index < right_index.val)))
    ELSE Ok(TRUE)

verify_non_existence(self, index, left_data, left_proof, left_is_right, right_data, right_proof, right_is_right) ==
    With(IF left_data # None
         THEN verify_proof(self, left_data, left_proof, left_is_right, self.root)
         ELSE Ok(TRUE), LAMBDA l :
        IF l.err # "none" THEN l
        ELSE IF ~l.val THEN Ok(FALSE)
        ELSE With(IF right_data # None
                  THEN verify_proof(self, right_data, right_proof, right_is_right, self.root)
                  ELSE Ok(TRUE), LAMBDA r :
                 IF r.err # "none" THEN r
                 ELSE IF ~r.val THEN Ok(FALSE)
                 ELSE OrderCheck(self, index, left_data, right_data)))

(***************************************************************************)
(* length_extension.py                                                     *)
(***************************************************************************)
\* s.strip() at the left and at the right
RECURSIVE LStrip(_)
LStrip(s) == IF s # <<>> /\ IsSpace(s[1]) THEN LStrip(Tail(s)) ELSE s

RECURSIVE RStrip(_)
RStrip(s) == IF s # <<>> /\ IsSpace(s[Len(s)]) THEN RStrip(SubSeq(s, 1, Len(s) - 1)) ELSE s

\* the digits of a base-16 literal body: hexadecimal digits, single underscores allowed
\* between digits (and, when lead is TRUE, before the first digit: after "0x").
\* The sequence of digit values, or Raised
RECURSIVE DigitRun(_, _, _)
DigitRun(s, lead, acc) ==
    IF s = <<>> THEN (IF acc = <<>> THEN Raised ELSE acc)
    ELSE IF s[1] = "_"
         THEN IF (acc = <<>> /\ ~lead) \/ Len(s) < 2 \/ HexVal(s[2]) < 0 THEN Raised
              ELSE DigitRun(Tail(s), FALSE, acc)
    ELSE IF HexVal(s[1]) < 0 THEN Raised
    ELSE DigitRun(Tail(s), FALSE, Append(acc, HexVal(s[1])))

\* the word whose hexadecimal digits are ds (at most 8 of them)
WordOfDigits(ds) ==
    LET p == Repeat(0, 8 - Len(ds)) \o ds
    IN  Bits([i \in 1..32 |-> (p[((i - 1) \div 4) + 1] \div (2^(3 - ((i - 1) % 4)))) % 2])

\* int(s, 16) for a string of at most 8 characters: surrounding whitespace, a sign and
\* a 0x / 0X prefix are accepted.  neg and mag are the sign and the magnitude
IntBase16(s) ==
    LET t == RStrip(LStrip(s))
        neg == t # <<>> /\ t[1] = "-"
        u == IF t # <<>> /\ t[1] \in {"+", "-"} THEN Tail(t) ELSE t
        pre == Len(u) >= 2 /\ u[1] = "0" /\ u[2] \in {"x", "X"}
        ds == IF pre THEN DigitRun(SubSeq(u, 3, Len(u)), TRUE, <<>>)
                     ELSE DigitRun(u, FALSE, <<>>)
    IN  IF ds = Raised THEN [err |-> "ValueError", neg |-> FALSE, mag |-> Zero32]
        ELSE [err |-> "none", neg |-> neg /\ ds # Repeat(0, Len(ds)), mag |-> WordOfDigits(ds)]

\* "for i in range(8): V.append(int(hash_hex[i*8:(i+1)*8], 16))" from i on
RECURSIVE ParseWords(_, _)
ParseWords(hash_hex, i) ==
    IF i >= 8 THEN Ok(<<>>)
    ELSE LET w == IntBase16(SubSeq(hash_hex, i * 8 + 1, (i + 1) * 8))
         IN  IF w.err # "none" THEN Raise(w.err)
             ELSE LET rest == ParseWords(hash_hex, i + 1)
                  IN  IF rest.err # "none" THEN rest
                      ELSE Ok(<<[neg |-> w.neg, mag |-> w.mag]>> \o rest.val)

\* the integers of V as [neg, mag] records
parse_hash(hash_hex) ==
    IF Len(hash_hex) # 64 THEN Raise("ValueError") ELSE ParseWords(hash_hex, 0)

\* f'{x:08x}' of an integer given as [neg, mag]: a negative one is rendered as "-"
\* and the magnitude zero-padded to the 7 places left (its magnitude here has at
\* most 7 digits: the sign took one of the 8 characters it was parsed from)
Format08x(x) == IF x.neg THEN <<"-">> \o SubSeq(Hex08(x.mag), 2, 8) ELSE Hex08(x.mag)

\* ''.join(f'{x:08x}' for x in V) on the integers parse_hash returns
RECURSIVE JoinFormat(_)
JoinFormat(V) == IF V = <<>> THEN <<>> ELSE Format08x(Head(V)) \o JoinFormat(Tail(V))

\* the string that starts with prefix and goes on with "0" up to n characters
ZeroFilled(prefix, n) == prefix \o SubSeq([i \in 1..(n - Len(prefix)) |-> "0"], 1, n - Len(prefix))

\* digest strings handed to parse_hash: well-formed ones, strings of a wrong length,
\* and strings of 64 characters of which some are not lowercase hexadecimal digits
DigestStrings ==
    { RFC6962_EMPTY_ROOT, ZeroFilled(<<>>, 64), ZeroFilled(<<"1","a","b","2","1","d","8","3">>, 64) }
    \cup { ZeroFilled(<<>>, n) : n \in {0, 63, 65} }
    \cup { ZeroFilled(q, 64) : q \in { <<"+">>, <<"-", "5">>, <<"-", "0">>, <<" ">>, <<"0", "x">>,
                                       <<"1", "_", "2">>, <<"_">>, <<"g">>, <<"A", "B">>,
                                       <<"0","0","0","0","0","0","0","\n">> } }

\* b[n:] of a byte sequence
SliceFrom(b, n) ==
    IF n >= 0 THEN SubSeq(b, n + 1, Len(b))
    ELSE SubSeq(b, (IF Len(b) + n < 0 THEN 0 ELSE Len(b) + n) + 1, Len(b))

\* the first round whose rotation of T[j] by j raises (64 when none does)
FirstRaisingRound ==
    CHOOSE j \in 0..64 :
        /\ j = 64 \/ _rotate_left(_T(j), j) = Raised
        /\ \A k \in 0..(j - 1) : _rotate_left(_T(k), k) # Raised

\* the block loop of the attack on the parsed state V.  No arithmetic of
\* _compression raises on a negative integer, so with a negative word in V the
\* loop ends where the rotation of T[j] raises; the registers are then not modelled
AttackBlocks(V, append_padded) ==
    IF \E i \in 1..Len(V) : V[i].neg
    THEN [err |-> IF FirstRaisingRound < 64 THEN "ValueError" ELSE "Unmodelled",
          val |-> <<>>, V |-> <<>>, regs |-> <<>>,
          rounds |-> FirstRaisingRound, blocks |-> 0]
    ELSE _HashBlocks([i \in 1..Len(V) |-> V[i].mag], append_padded, 0, 0)

\* "0" * 64
ZeroDigest == Repeat("0", 64)

\* digest strings a caller may pass: the empty-root constant and "0" * 64
Digests == { RFC6962_EMPTY_ROOT, ZeroDigest }

\* lines 45-46 and 64-68 of the attack: parse the digest, then run the block loop
\* over the padded append_data
AttackLoop(original_hash, append_data) ==
    With(parse_hash(original_hash), LAMBDA V :
        IF V.err # "none"
        THEN [err |-> V.err, val |-> <<>>, V |-> <<>>, regs |-> <<>>, rounds |-> 0, blocks |-> 0]
        ELSE AttackBlocks(V.val, _padding(append_data)))

\* its outcomes on the digests and the data the callers pass, evaluated once
AttackLoop_outcomes ==
    [k \in Digests \X LeafData |-> AttackLoop(k[1], k[2])]

sm3_length_extension_attack(original_hash, original_length, append_data) ==
    LET X == Repeat(88, original_length)
        extended_message == X \o SliceFrom(_padding(X), original_length) \o append_data
    IN  With(With(AttackLoop_outcomes, LAMBDA known :
                 IF <<original_hash, append_data>> \in DOMAIN known
                 THEN known[<<original_hash, append_data>>]
                 ELSE AttackLoop(original_hash, append_data)), LAMBDA current_V :
            IF current_V.err # "none" THEN Raise(current_V.err)
            ELSE Ok([extended_hash |-> current_V.val, extended_message |-> extended_message]))

\* the body of verify_length_extension (lines 74-97): its return statement compares
\* attacked_hash with an undefined name, which raises NameError
verify_length_extension(original_msg, append_data) ==
    With(sm3_hash_optimized(original_msg), LAMBDA original_hash :
        IF original_hash.err # "none" THEN Raise(original_hash.err)
        ELSE With(sm3_length_extension_attack(original_hash.val, Len(original_msg), append_data),
                  LAMBDA attacked :
             IF attacked.err # "none" THEN attacked
             ELSE With(sm3_hash_optimized(_padding(original_msg) \o append_data),
                       LAMBDA real_hash :
                  IF real_hash.err # "none" THEN Raise(real_hash.err)
                  ELSE Raise("NameError"))))

(***************************************************************************)
(* The callers: one action per entry point.  A caller makes a call while   *)
(* no call is outstanding (pc = "idle"); the call runs to its end, leaving *)
(* what it returned or raised in ret; Return hands control back.  tree is  *)
(* the MerkleTree instance the caller holds, NoTree before any             *)
(* constructor call has returned one.                                      *)
(***************************************************************************)
VARIABLES pc, call, ret, tree

vars == << pc, call, ret, tree >>

Proofs == SeqsUpTo(Digests, MaxProofLen)

Flags == SeqsUpTo(BOOLEAN, MaxProofLen)

OptLeaf == { None } \cup LeafData

NoCall == [op |-> "none", args |-> <<>>]

NoRet == [err |-> "none", val |-> <<>>]

Init ==
    /\ pc = "idle"
    /\ call = NoCall
    /\ ret = NoRet
    /\ tree = NoTree

\* the call op(args) runs to its end with outcome r, leaving the caller with instance t
Do(op, args, r, t) ==
    /\ pc = "idle"
    /\ pc' = "returned"
    /\ call' = [op |-> op, args |-> args]
    /\ ret' = r
    /\ tree' = t

Call_padding ==
    \E m \in PadMsgs : Do("padding", <<m>>, Ok(padding(m)), tree)

Call__padding ==
    \E m \in PadMsgs : Do("_padding", <<m>>, Ok(_padding(m)), tree)

Call_sm3_hash ==
    \E m \in HashMsgs : Do("sm3_hash", <<m>>, sm3_hash(m), tree)

Call_sm3_hash_optimized ==
    \E m \in HashMsgs : Do("sm3_hash_optimized", <<m>>, sm3_hash_optimized(m), tree)

Call_hash_leaf ==
    \E d \in LeafData : Do("hash_leaf", <<d>>, hash_leaf(d), tree)

\* t = MerkleTree(leaves): the caller holds the new instance only if __init__ returned
Call_MerkleTree ==
    \E leaves \in LeafLists :
        \E r \in { MerkleTree(leaves) } :
            Do("MerkleTree", <<leaves>>,
               IF r.err = "none" THEN Ok("instance") ELSE r,
               IF r.err = "none" THEN r.val ELSE tree)

\* reading t.root, t.height, t.size or t.leaf_count
Call_GetAttr ==
    /\ tree # NoTree
    /\ \E name \in {"root", "height", "size", "leaf_count"} :
           Do("getattr", <<name>>, GetAttr(tree, name), tree)

Call_get_root ==
    /\ tree # NoTree
    /\ Do("get_root", <<>>, get_root(tree), tree)

Call_get_proof ==
    /\ tree # NoTree
    /\ \E index \in -1..MaxIndex : Do("get_proof", <<index>>, get_proof(tree, index), tree)

Call_verify_proof ==
    /\ tree # NoTree
    /\ \E leaf_data \in LeafData, proof \in Proofs, is_right \in Flags, root \in Digests :
           Do("verify_proof", <<leaf_data, proof, is_right, root>>,
              verify_proof(tree, leaf_data, proof, is_right, root), tree)

Call_verify_non_existence ==
    /\ tree # NoTree
    /\ \E index \in 0..MaxIndex, left_data \in OptLeaf, right_data \in OptLeaf, proof \in Proofs :
           LET is_right == Repeat(TRUE, Len(proof))
           IN  Do("verify_non_existence",
                  <<index, left_data, proof, is_right, right_data, proof, is_right>>,
                  verify_non_existence(tree, index, left_data, proof, is_right,
                                       right_data, proof, is_right), tree)

Call_get_non_existence_proof ==
    /\ tree # NoTree
    /\ \E index \in -1..MaxIndex :
           Do("get_non_existence_proof", <<index>>, get_non_existence_proof(tree, index), tree)

Call_parse_hash ==
    \E hash_hex \in DigestStrings : Do("parse_hash", <<hash_hex>>, parse_hash(hash_hex), tree)

Call_sm3_length_extension_attack ==
    \E original_hash \in Digests, original_length \in 0..MaxOrigLen, append_data \in LeafData :
        Do("sm3_length_extension_attack", <<original_hash, original_length, append_data>>,
           sm3_length_extension_attack(original_hash, original_length, append_data), tree)

Call_verify_length_extension ==
    \E original_msg \in HashMsgs, append_data \in LeafData :
        Do("verify_length_extension", <<original_msg, append_data>>,
           verify_length_extension(original_msg, append_data), tree)

Return ==
    /\ pc = "returned"
    /\ pc' = "idle"
    /\ call' = NoCall
    /\ ret' = NoRet
    /\ tree' = tree

Next ==
    \/ Call_padding
    \/ Call__padding
    \/ Call_sm3_hash
    \/ Call_sm3_hash_optimized
    \/ Call_hash_leaf
    \/ Call_MerkleTree
    \/ Call_GetAttr
    \/ Call_get_root
    \/ Call_get_proof
    \/ Call_verify_proof
    \/ Call_verify_non_existence
    \/ Call_get_non_existence_proof
    \/ Call_parse_hash
    \/ Call_sm3_length_extension_attack
    \/ Call_verify_length_extension
    \/ Return

Spec == Init /\ [][Next]_vars

(***************************************************************************)
(* The callers of tests/test_merkle.py: a tree is built, a leaf is proved  *)
(* and the proof is verified, as given or with one part changed.           *)
(***************************************************************************)

\* tree = MerkleTree(leaves); proof, is_right = tree.get_proof(i);
\* tree.verify_proof(leaves[i], proof, is_right, tree.get_root())
ExistenceCheck(leaves, i) ==
    With(MerkleTree(leaves), LAMBDA t :
        IF t.err # "none" THEN t
        ELSE With(get_proof(t.val, i), LAMBDA p :
                 IF p.err # "none" THEN p
                 ELSE verify_proof(t.val, leaves[i + 1], p.val.proof, p.val.is_right,
                                   t.val.root)))

\* s with its k-th entry (1-based) replaced by v
Replaced(s, k, v) == SubSeq([j \in 1..Len(s) |-> IF j = k THEN v ELSE s[j]], 1, Len(s))

\* the same call with one part changed: the leaf bytes, the first sibling digest,
\* the first side flag, or the root passed in.  A proof without entries has no
\* entry to change ("if proof:"), which leaves nothing to reject
TamperedCheck(leaves, i, part) ==
    With(MerkleTree(leaves), LAMBDA t :
        IF t.err # "none" THEN t
        ELSE With(get_proof(t.val, i), LAMBDA p :
                 IF p.err # "none" THEN p
                 ELSE LET proof == p.val.proof
                          is_right == p.val.is_right
                          root == t.val.root
                          other == IF root = ZeroDigest THEN RFC6962_EMPTY_ROOT ELSE ZeroDigest
                      IN  CASE part = "leaf" ->
                                 verify_proof(t.val, leaves[i + 1] \o <<95>>, proof, is_right, root)
                            [] part = "sibling" ->
                                 IF proof = <<>> THEN Ok(FALSE)
                                 ELSE verify_proof(t.val, leaves[i + 1],
                                          Replaced(proof, 1, IF proof[1] = ZeroDigest
                                                             THEN RFC6962_EMPTY_ROOT
                                                             ELSE ZeroDigest),
                                          is_right, root)
                            [] part = "flag" ->
                                 IF proof = <<>> THEN Ok(FALSE)
                                 ELSE verify_proof(t.val, leaves[i + 1], proof,
                                          Replaced(is_right, 1, ~is_right[1]), root)
                            [] OTHER ->
                                 verify_proof(t.val, leaves[i + 1], proof, is_right, other)))

\* tree = MerkleTree(leaves); the six values of tree.get_non_existence_proof(i);
\* tree.verify_non_existence(j, leaves[left], ..., leaves[right], ...), with the
\* neighbours' leaf data looked up in leaves ("leaves[left_idx] if left_idx is not
\* None else None").  part = "digest" changes the first digest of the left proof first
AbsenceCheck(leaves, i, j, part) ==
    With(MerkleTree(leaves), LAMBDA t :
        IF t.err # "none" THEN t
        ELSE With(get_non_existence_proof(t.val, i), LAMBDA p :
                 IF p.err # "none" THEN p
                 ELSE LET left_data == IF p.val.left_neighbor = None THEN None
                                       ELSE leaves[p.val.left_neighbor + 1]
                          right_data == IF p.val.right_neighbor = None THEN None
                                        ELSE leaves[p.val.right_neighbor + 1]
                          left_proof == IF part = "digest" /\ p.val.left_proof # <<>>
                                        THEN Replaced(p.val.left_proof, 1,
                                                 IF p.val.left_proof[1] = ZeroDigest
                                                 THEN RFC6962_EMPTY_ROOT ELSE ZeroDigest)
                                        ELSE p.val.left_proof
                      IN  verify_non_existence(t.val, j, left_data, left_proof,
                                               p.val.left_is_right, right_data,
                                               p.val.right_proof, p.val.right_is_right)))

\* tree = MerkleTree(leaves); tree.get_non_existence_proof(i)
AbsenceProof(leaves, i) ==
    With(MerkleTree(leaves), LAMBDA t :
        IF t.err # "none" THEN t ELSE get_non_existence_proof(t.val, i))

\* tree = MerkleTree(leaves); tree.get_proof(i)
ExistenceProof(leaves, i) ==
    With(MerkleTree(leaves), LAMBDA t :
        IF t.err # "none" THEN t ELSE get_proof(t.val, i))


(***************************************************************************)
(* The claims.                                                             *)
(***************************************************************************)

\* C1: every call of sm3_hash or sm3_hash_optimized on a byte sequence, the empty
\* one included, runs all 64 rounds of every block of the padded message and
\* returns a digest; it raises no exception.
C1_HashRunsAllRounds ==
    (pc = "returned" /\ call.op \in {"sm3_hash", "sm3_hash_optimized"}) =>
        /\ ret.err = "none"
        /\ ret.rounds = 64
        /\ ret.blocks = Len(padding(call.args[1])) \div 64

\* C2: length-extension validity.  With h = sm3_hash_optimized(prefix) and
\* (h2, synth) = sm3_length_extension_attack(h, len(prefix), suffix), the forged
\* digest h2 is the real digest of prefix || synth[len(prefix):], and
\* verify_length_extension(prefix, suffix) returns True.
C2_LengthExtensionValid ==
    (pc = "returned" /\ call.op = "verify_length_extension") =>
        LET prefix == call.args[1]
            suffix == call.args[2]
            h == sm3_hash_optimized(prefix)
            forged == sm3_length_extension_attack(h.val, Len(prefix), suffix)
            real == sm3_hash_optimized(
                        prefix \o SliceFrom(forged.val.extended_message, Len(prefix)))
        IN  /\ h.err = "none"
            /\ forged.err = "none"
            /\ real.err = "none"
            /\ forged.val.extended_hash = real.val
            /\ ret = Ok(TRUE)

\* C3: tree round trip.  For every non-empty leaf list and every index i below
\* leaf_count, verify_proof(leaves[i], *get_proof(i), get_root()) returns True.
C3_TreeRoundTrip ==
    (pc = "returned" /\ call.op = "MerkleTree" /\ call.args[1] # <<>>) =>
        \A i \in 0..(Len(call.args[1]) - 1) :
            ExistenceCheck(call.args[1], i) = Ok(TRUE)

\* C4: tamper rejection.  For every tree and every index, the proof that
\* get_proof returns, verified with the leaf bytes, one proof entry (sibling
\* digest or side flag) or the root changed, makes verify_proof return False.
C4_TamperRejected ==
    (pc = "returned" /\ call.op = "MerkleTree" /\ call.args[1] # <<>>) =>
        \A i \in 0..(Len(call.args[1]) - 1) :
            \A part \in {"leaf", "sibling", "flag", "root"} :
                TamperedCheck(call.args[1], i, part) = Ok(FALSE)

\* C5: verify_proof and verify_non_existence never raise: on every input they
\* return a boolean.
C5_VerifyNeverRaises ==
    (pc = "returned" /\ call.op \in {"verify_proof", "verify_non_existence"}) =>
        /\ ret.err = "none"
        /\ ret.val \in BOOLEAN

\* C6: the padding rule.  For a message m of n bytes, padding(m) and _padding(m)
\* are m, then the byte 0x80, then k zero bytes, then the 8 bytes of 8*n least
\* significant first, where k is the smallest k >= 0 with n + 1 + k = 56 mod 64;
\* the padded length is a positive multiple of 64.
C6_PaddingRule ==
    (pc = "returned" /\ call.op \in {"padding", "_padding"}) =>
        LET m == call.args[1]
            n == Len(m)
            p == ret.val
            k == CHOOSE c \in 0..63 :
                     /\ (n + 1 + c) % 64 = 56
                     /\ \A d \in 0..(c - 1) : (n + 1 + d) % 64 # 56
            RECURSIVE Byte(_, _)
            Byte(v, i) == IF i = 0 THEN v % 256 ELSE Byte(v \div 256, i - 1)
        IN  /\ ret.err = "none"
            /\ Len(p) = n + 1 + k + 8
            /\ \A i \in 1..n : p[i] = m[i]
            /\ p[n + 1] = 128
            /\ \A i \in 1..k : p[n + 1 + i] = 0
            /\ \A i \in 0..7 : p[n + 1 + k + 1 + i] = Byte(8 * n, i)
            /\ Len(p) > 0
            /\ Len(p) % 64 = 0

\* padding has returned for a message of 120 bytes: 63 zero bytes, three blocks
C6_PaddingRule_Witness ==
    /\ pc = "returned"
    /\ call.op = "padding"
    /\ Len(call.args[1]) = 120
    /\ Len(ret.val) = 192
    /\ ret.val[121] = 128
    /\ ret.val[185] = 192
    /\ ret.val[186] = 3

\* C7: after every block compression the chaining state is 8 words of 32 bits, and
\* the digest returned by sm3_hash, sm3_hash_optimized, hash_leaf and hash_nodes
\* is 64 lowercase hexadecimal characters.
C7_DigestShape ==
    (pc = "returned" /\ call.op \in {"sm3_hash", "sm3_hash_optimized", "hash_leaf"}) =>
        LET LowerHex == {"0","1","2","3","4","5","6","7","8","9","a","b","c","d","e","f"}
            IsDigest(d) == Len(d) = 64 /\ \A i \in 1..64 : d[i] \in LowerHex
        IN  /\ ret.err = "none"
            /\ IsDigest(ret.val)
            /\ call.op # "hash_leaf" =>
                   /\ Len(ret.V) = 8
                   /\ \A i \in 1..8 :
                          Len(ret.V[i]) = 32 /\ \A b \in 1..32 : ret.V[i][b] \in {0, 1}
            /\ call.op = "hash_leaf" =>
                   /\ hash_nodes(ret.val, ret.val).err = "none"
                   /\ IsDigest(hash_nodes(ret.val, ret.val).val)

\* C8: the basic and the optimized engine agree: sm3_hash(m) and
\* sm3_hash_optimized(m) return the same digest, and compression and _compression
\* give the same state on every block of the padded message.
C8_EnginesAgree ==
    (pc = "returned" /\ call.op = "sm3_hash") =>
        LET m == call.args[1]
            optimized == sm3_hash_optimized(m)
            first_block == SubSeq(padding(m), 1, 64)
        IN  /\ ret.err = "none"
            /\ optimized.err = "none"
            /\ ret.val = optimized.val
            /\ compression(IV, first_block).err = "none"
            /\ compression(IV, first_block).V = _compression(_IV, first_block).V

\* C9: the height/size law.  A tree built from n >= 1 leaves has height
\* ceil(log2(n)) (the least h with 2^h >= n) and size 2^height >= n, with size = n
\* exactly when n is a power of two; n = 1 gives height 0, size 1 and
\* root = hash_leaf(leaves[0]).
C9_HeightSizeLaw ==
    (pc = "returned" /\ call.op = "MerkleTree" /\ Len(call.args[1]) >= 1) =>
        LET leaves == call.args[1]
            n == Len(leaves)
        IN  /\ ret.err = "none"
            /\ {"height", "size", "root"} \subseteq tree.attrs
            /\ 2^tree.height >= n
            /\ tree.height = 0 \/ 2^(tree.height - 1) < n
            /\ tree.size = 2^tree.height
            /\ (tree.size = n) <=> (\E h \in 0..n : 2^h = n)
            /\ n = 1 => /\ tree.height = 0
                        /\ tree.size = 1
                        /\ hash_leaf(leaves[1]) = Ok(tree.root)

\* C10: the empty tree.  MerkleTree([]) has the canonical empty root, height 0,
\* no levels and leaf_count 0, and root, height, size and leaf_count can all be
\* read on it.
C10_EmptyTree ==
    (pc = "returned" /\ call.op = "MerkleTree" /\ call.args[1] = <<>>) =>
        /\ ret.err = "none"
        /\ tree.root = RFC6962_EMPTY_ROOT
        /\ tree.tree = <<>>
        /\ tree.leaf_count = 0
        /\ \A name \in {"root", "height", "size", "leaf_count"} :
               GetAttr(tree, name).err = "none"
        /\ GetAttr(tree, "height").val = 0

\* C11: absence proof soundness.  For a tree of n >= 1 leaves and every index i
\* with n <= i < size (size the least power of two >= n), get_non_existence_proof(i)
\* returns left neighbour n - 1 with the existence proof of n - 1 and no right
\* neighbour, and verify_non_existence on what it returned, with the neighbour's
\* leaf data, returns True.
C11_AbsenceProofSound ==
    (pc = "returned" /\ call.op = "MerkleTree" /\ Len(call.args[1]) >= 1) =>
        LET leaves == call.args[1]
            n == Len(leaves)
            size == CHOOSE z \in { 2^h : h \in 0..n } :
                        z >= n /\ \A y \in { 2^h : h \in 0..n } : y >= n => z <= y
        IN  \A i \in n..(size - 1) :
                LET p == AbsenceProof(leaves, i)
                    e == ExistenceProof(leaves, n - 1)
                IN  /\ p.err = "none"
                    /\ e.err = "none"
                    /\ p.val.left_neighbor = n - 1
                    /\ p.val.left_proof = e.val.proof
                    /\ p.val.left_is_right = e.val.is_right
                    /\ p.val.right_neighbor = None
                    /\ p.val.right_proof = <<>>
                    /\ AbsenceCheck(leaves, i, i, "none") = Ok(TRUE)

\* C12: an absence proof is bound to its index and its digests.  With the output
\* of get_non_existence_proof(i), verify_non_existence returns True for the index i
\* and the digests as returned, and False for every other index j and for a
\* changed proof digest.
C12_AbsenceProofBound ==
    (pc = "returned" /\ call.op = "MerkleTree" /\ Len(call.args[1]) >= 1) =>
        LET leaves == call.args[1]
            n == Len(leaves)
            size == CHOOSE z \in { 2^h : h \in 0..n } :
                        z >= n /\ \A y \in { 2^h : h \in 0..n } : y >= n => z <= y
        IN  \A i \in n..(size - 1) :
                /\ AbsenceCheck(leaves, i, i, "none") = Ok(TRUE)
                /\ AbsenceCheck(leaves, i, i, "digest") = Ok(FALSE)
                /\ \A j \in 0..(size - 1) :
                       j # i => AbsenceCheck(leaves, i, j, "none") = Ok(FALSE)

\* C13: absence-proof request validation.  get_non_existence_proof(index) ends
\* with the out-of-range error (IndexError) when index is outside [0, size) and
\* with the index-exists error (ValueError) when 0 <= index < leaf_count; either
\* way it returns no proof.  (The empty tree is given no size by __init__; with
\* height 0 its size is at most 1, so an index >= 1 is out of range on it.)
C13_AbsenceRequestValidated ==
    (pc = "returned" /\ call.op = "get_non_existence_proof") =>
        LET index == call.args[1]
            beyond == IF "size" \in tree.attrs THEN index >= tree.size ELSE index >= 1
        IN  /\ (index < 0 \/ beyond) => (ret.err = "IndexError" /\ ret.val = <<>>)
            /\ (0 <= index /\ index < tree.leaf_count) =>
                   (ret.err = "ValueError" /\ ret.val = <<>>)

\* C14: proof shape.  For a tree of n >= 1 leaves and i in [0, n), get_proof(i)
\* returns height pairs; the k-th sibling (k from 0, leaf level first) is the node
\* stored at level k, position floor(i / 2^k) XOR 1, and its flag is True (right)
\* exactly when floor(i / 2^k) is even.  For an index outside [0, n) it raises the
\* out-of-range error.
C14_ProofShape ==
    (pc = "returned" /\ call.op = "MerkleTree" /\ Len(call.args[1]) >= 1) =>
        LET leaves == call.args[1]
            n == Len(leaves)
            t == MerkleTree(leaves)
        IN  /\ t.err = "none"
            /\ \A i \in 0..(n - 1) :
                   LET p == get_proof(t.val, i)
                   IN  /\ p.err = "none"
                       /\ Len(p.val.proof) = t.val.height
                       /\ Len(p.val.is_right) = t.val.height
                       /\ \A k \in 0..(t.val.height - 1) :
                              LET q == i \div (2^k)
                                  sibling == IF q % 2 = 0 THEN q + 1 ELSE q - 1
                              IN  /\ p.val.proof[k + 1] = t.val.tree[k + 1][sibling + 1]
                                  /\ p.val.is_right[k + 1] = (q % 2 = 0)
            /\ \A i \in {-1, n, n + 1} : get_proof(t.val, i) = Raise("IndexError")

\* C15: the digest format check.  parse_hash ends with the format error
\* (ValueError) and gives no output for every string that is not exactly 64
\* hexadecimal digit characters: a wrong length, or 64 characters of which one is
\* a sign, whitespace, an underscore, "x" or any other non-digit.
C15_DigestFormatChecked ==
    (pc = "returned" /\ call.op = "parse_hash") =>
        LET d == call.args[1]
            HexChars == {"0","1","2","3","4","5","6","7","8","9",
                         "a","b","c","d","e","f","A","B","C","D","E","F"}
            well_formed == Len(d) = 64 /\ \A i \in 1..64 : d[i] \in HexChars
        IN  ~well_formed => (ret.err = "ValueError" /\ ret.val = <<>>)

\* C16: digest/state conversion is an exact inverse.  parse_hash returns 8
\* integers in [0, 2^32); rendering them (8 lowercase hexadecimal digits per word)
\* gives back the digest string that was accepted, and parsing the rendering of
\* the state gives back the state.
C16_ParseRenderInverse ==
    (pc = "returned" /\ call.op = "parse_hash" /\ ret.err = "none") =>
        LET d == call.args[1]
            V == ret.val
        IN  /\ Len(V) = 8
            /\ \A i \in 1..8 : ~V[i].neg /\ Len(V[i].mag) = 32
            /\ JoinFormat(V) = d
            /\ parse_hash(JoinFormat(V)) = Ok(V)

\* C17: for the tree of the 4 leaves [a, b, d, e], get_non_existence_proof(2)
\* returns left neighbour 1 and right neighbour 2 with their existence proofs, and
\* verify_non_existence(2, leaves[1], left proof, leaves[2], right proof) returns
\* True.
C17_AbsenceBetweenLeaves ==
    (pc = "returned" /\ call.op = "MerkleTree" /\ call.args[1] = TestLeaves) =>
        LET p == AbsenceProof(TestLeaves, 2)
            l == ExistenceProof(TestLeaves, 1)
            r == ExistenceProof(TestLeaves, 2)
        IN  /\ p.err = "none"
            /\ l.err = "none"
            /\ r.err = "none"
            /\ p.val.left_neighbor = 1
            /\ p.val.right_neighbor = 2
            /\ p.val.left_proof = l.val.proof /\ p.val.left_is_right = l.val.is_right
            /\ p.val.right_proof = r.val.proof /\ p.val.right_is_right = r.val.is_right
            /\ AbsenceCheck(TestLeaves, 2, 2, "none") = Ok(TRUE)

\* C18: in every round j in 0..63 of compression and of _compression the round
\* constant T[j] is rotated left by j mod 32 bits: the rotation the round applies
\* is defined (32 - n is never negative) and gives the word T[j] <<< (j mod 32),
\* so a call of either hash function gets through all 64 rounds.
C18_RoundConstantRotation ==
    (pc = "returned" /\ call.op \in {"sm3_hash", "sm3_hash_optimized"}) =>
        LET rotl(x, n) == SubSeq([i \in 1..32 |-> x[((i - 1 + n) % 32) + 1]], 1, 32)
        IN  /\ \A j \in 0..63 :
                   /\ rotate_left(T(j), j) # Raised
                   /\ rotate_left(T(j), j) = rotl(T(j), j % 32)
                   /\ _rotate_left(_T(j), j) # Raised
                   /\ _rotate_left(_T(j), j) = rotl(_T(j), j % 32)
            /\ ret.rounds = 64

\* C19: level structure.  A tree built from n >= 1 leaves has height + 1 levels,
\* level k has size / 2^k nodes (an even number on every level that gets paired),
\* the last level is the root alone, and the padded positions n .. size - 1 of
\* level 0 hold hash_leaf(b'').
C19_LevelStructure ==
    (pc = "returned" /\ call.op = "MerkleTree" /\ Len(call.args[1]) >= 1) =>
        LET n == Len(call.args[1])
        IN  /\ ret.err = "none"
            /\ {"tree", "height", "size", "root"} \subseteq tree.attrs
            /\ Len(tree.tree) = tree.height + 1
            /\ \A k \in 0..tree.height :
                   /\ Len(tree.tree[k + 1]) * (2^k) = tree.size
                   /\ k < tree.height => Len(tree.tree[k + 1]) % 2 = 0
            /\ tree.tree[tree.height + 1] = << tree.root >>
            /\ \A pos \in (n + 1)..tree.size : Ok(tree.tree[1][pos]) = hash_leaf(<<>>)

\* C20: the digest sm3_length_extension_attack returns does not depend on
\* original_length: for the same original_hash and append_data every
\* original_length gives the same new digest; original_length shows only in the
\* synthetic message.
C20_DigestIgnoresLength ==
    (pc = "returned" /\ call.op = "sm3_length_extension_attack") =>
        /\ ret.err = "none"
        /\ \A other_length \in 0..(MaxOrigLen + 1) :
               LET other == sm3_length_extension_attack(call.args[1], other_length,
                                                        call.args[3])
               IN  /\ other.err = "none"
                   /\ other.val.extended_hash = ret.val.extended_hash
                   /\ Len(other.val.extended_message) - Len(ret.val.extended_message)
                          = Len(_padding(Repeat(88, other_length)))
                            - Len(_padding(Repeat(88, call.args[2])))

\* C21: padding is indistinguishable from real empty leaves.  For a leaf list L
\* of n >= 1 leaves, n not a power of two, the tree built from L and the tree built
\* from L followed by size - n empty leaves have the same root and the same
\* levels, and verify_proof(b'', sibling path of a padded position, root of the
\* tree built from L) returns True.
C21_PaddingLikeEmptyLeaves ==
    (pc = "returned" /\ call.op = "MerkleTree" /\ Len(call.args[1]) >= 1
       /\ \A h \in 0..Len(call.args[1]) : 2^h # Len(call.args[1])) =>
        LET L == call.args[1]
            n == Len(L)
            size == CHOOSE z \in { 2^h : h \in 0..n } :
                        z >= n /\ \A y \in { 2^h : h \in 0..n } : y >= n => z <= y
            t == MerkleTree(L)
            u == MerkleTree(L \o SubSeq([i \in 1..(size - n) |-> <<>>], 1, size - n))
        IN  /\ t.err = "none"
            /\ u.err = "none"
            /\ t.val.root = u.val.root
            /\ t.val.tree = u.val.tree
            /\ \A i \in n..(size - 1) :
                   LET p == get_proof(u.val, i)
                   IN  /\ p.err = "none"
                       /\ verify_proof(t.val, <<>>, p.val.proof, p.val.is_right,
                                       t.val.root) = Ok(TRUE)

====
